---- MODULE Spec2Model ----
(***************************************************************************)
(* Model of baa/main.py: the artist_albums pagination/aggregation handler, *)
(* the login callback with its users table, and the currently-playing     *)
(* lookup (get_data) with its two callers, start and current.             *)
(*                                                                         *)
(* Python strings that the code only passes around are TLA+ strings.      *)
(* release_date strings are compared by list.sort, so they are sequences  *)
(* of code points and are ordered as Python orders str.                   *)
(***************************************************************************)
EXTENDS Integers, Sequences, FiniteSets, TLC

VARIABLES
    pc,            \* artist_albums: "idle" | "loop" | "returned"
    artist_id,     \* artist_albums: route argument
    display_type,  \* artist_albums: route argument
    items,         \* artist_albums: local  items
    offset,        \* artist_albums: local  offset
    done,          \* artist_albums: local  done
    album_data,    \* artist_albums: local  album_data (after map and sort)
    response,      \* artist_albums: what the handler returned
    calls,         \* outbound album-listing calls of the current request, in order
    pages,         \* responses received for those calls, in order
    users,         \* the users table: row i has primary key id = i
    session,       \* per browser: the user id flask_login keeps in the session
    cb,            \* per browser: login_callback in flight (after its query)
    reply          \* last reply of logout / start / current / login_callback

albumVars == <<pc, artist_id, display_type, items, offset, done, album_data,
               response, calls, pages>>
accountVars == <<users, session, cb, reply>>
vars == <<pc, artist_id, display_type, items, offset, done, album_data,
          response, calls, pages, users, session, cb, reply>>

-----------------------------------------------------------------------------
(* Bounds of the model *)

MaxPages == 2
MaxPageLen == 2
MaxItems == 3
NumClients == 2

-----------------------------------------------------------------------------
(* Strings that are compared: sequences of code points *)

\* "1999"
D1999 == <<49, 57, 57, 57>>
\* "1999-05"
D1999_05 == <<49, 57, 57, 57, 45, 48, 53>>
\* "2001"
D2001 == <<50, 48, 48, 49>>
\* "?"  -- the default of x.get("release_date", "?")
QuestionMark == <<63>>

JsonNull == "<null>"
NextUrl == "https://api.spotify.com/v1/artists/x/albums?next"

\* Python's str < str: lexicographic by code point, a proper prefix is smaller.
RECURSIVE StrLess(_, _)
StrLess(a, b) ==
    IF b = <<>> THEN FALSE
    ELSE IF a = <<>> THEN TRUE
    ELSE IF Head(a) # Head(b) THEN Head(a) < Head(b)
    ELSE StrLess(Tail(a), Tail(b))

\* dict.get(key, default)
HasKey(d, k) == k \in DOMAIN d

-----------------------------------------------------------------------------
(* The provider's album items, as the handler reads them *)

RawA == [album_type |-> "album", release_date |-> D1999_05,
         images |-> <<[url |-> "imgA"]>>, external_urls |-> [spotify |-> "urlA"]]
RawB == [album_type |-> "single", release_date |-> D1999,
         images |-> <<[url |-> "imgB"], [url |-> "imgB-small"]>>,
         external_urls |-> [spotify |-> "urlB"]]
RawC == [album_type |-> "ep", release_date |-> D1999,
         images |-> <<[url |-> "imgC"]>>, external_urls |-> [other |-> "urlC"]]
RawD == [album_type |-> "compilation",
         images |-> <<[url |-> "imgD"]>>, external_urls |-> [spotify |-> "urlD"]]
RawE == [album_type |-> "album", release_date |-> D2001,
         images |-> <<>>, external_urls |-> [spotify |-> "urlE"]]

RawItems == {RawA, RawB, RawC, RawD, RawE}

SeqsUpTo(S, n) == UNION {[1..k -> S] : k \in 0..n}

\* Responses of GET /v1/artists/{id}/albums
OkResponses ==
    {[status |-> 200, body |-> [items |-> its, next |-> nx]] :
        its \in SeqsUpTo(RawItems, MaxPageLen), nx \in {JsonNull, NextUrl}}
NoItemsResponses ==
    {[status |-> 401, body |-> [error |-> "The access token expired"]]}
NoContentResponses == {[status |-> 204]}
AlbumResponses == OkResponses \cup NoItemsResponses \cup NoContentResponses

Artists == {"artist1"}
DisplayTypes == {"categories", "chronological", "newest"}

-----------------------------------------------------------------------------
(* artist_albums *)

Limit == 50

AlbumsUrl(a, off) == [artist |-> a, limit |-> Limit, offset |-> off]

TextReply(s) == [kind |-> "text", body |-> s]
Whoops204 == TextReply("whoops 204")
UhOhNoItems == TextReply("uh oh no items")
IndexError == [kind |-> "exception", name |-> "IndexError"]

\* parsed.get("items", None) == None
ItemsMissing(parsed) == ~HasKey(parsed, "items")

\* Mutation of Extend: the new page goes in front.
ExtendInFront(its, new) == new \o its

\* items.extend(parsed["items"])
Extend(its, new) == its \o new

\* Mutation of NextOffset: the offset is not advanced.
NextOffsetStuck(off) == off

\* offset += 50
NextOffset(off) == off + Limit

\* Mutation of NormalizeAlbum: another default for release_date.
NormalizeAlbumUnknown(x) ==
    [image_url |-> x.images[1].url,
     release_date |-> IF HasKey(x, "release_date") THEN x.release_date
                      ELSE <<117, 110, 107, 110, 111, 119, 110>>,
     spotify_url |-> IF HasKey(x.external_urls, "spotify")
                     THEN x.external_urls.spotify ELSE "?",
     type |-> x.album_type]

\* the lambda of lines 229-234
NormalizeAlbum(x) ==
    [image_url |-> x.images[1].url,
     release_date |-> IF HasKey(x, "release_date") THEN x.release_date ELSE QuestionMark,
     spotify_url |-> IF HasKey(x.external_urls, "spotify")
                     THEN x.external_urls.spotify ELSE "?",
     type |-> x.album_type]

\* x["images"][0] raises IndexError on an empty list
NormalizeRaises(its) == \E i \in 1..Len(its) : its[i].images = <<>>

MapNormalize(its) == [i \in 1..Len(its) |-> NormalizeAlbum(its[i])]

\* Mutation of InsertByDate: an element goes before the elements of its own key.
InsertBeforeEqual(sorted, a) ==
    LET before == {i \in 1..Len(sorted) : StrLess(sorted[i].release_date, a.release_date)}
        k == IF before = {} THEN 0
             ELSE CHOOSE i \in before : \A j \in before : j <= i
    IN  SubSeq(sorted, 1, k) \o <<a>> \o SubSeq(sorted, k + 1, Len(sorted))

\* list.sort(key=release_date) is stable: an element goes after every element
\* whose key is not greater than its own.
InsertByDate(sorted, a) ==
    LET before == {i \in 1..Len(sorted) : ~StrLess(a.release_date, sorted[i].release_date)}
        k == IF before = {} THEN 0
             ELSE CHOOSE i \in before : \A j \in before : j <= i
    IN  SubSeq(sorted, 1, k) \o <<a>> \o SubSeq(sorted, k + 1, Len(sorted))

RECURSIVE SortFrom(_, _, _)
SortFrom(sorted, s, i) ==
    IF i > Len(s) THEN sorted
    ELSE SortFrom(InsertByDate(sorted, s[i]), s, i + 1)

SortByReleaseDate(s) == SortFrom(<<>>, s, 1)

FilterType(s, t) == SelectSeq(s, LAMBDA x : x.type = t)
\* Mutation of FilterOther: only the literal type "other" is kept.
FilterOtherLiteral(s) == SelectSeq(s, LAMBDA x : x.type = "other")
FilterOther(s) == SelectSeq(s, LAMBDA x : x.type \notin {"album", "single", "compilation"})

UrlFor(a, dt) == [artist_id |-> a, display_type |-> dt]

CategoriesView(a, data) ==
    [kind |-> "template", name |-> "artist_albums_categories.html",
     ctx |-> [albums |-> FilterType(data, "album"),
              singles |-> FilterType(data, "single"),
              compilations |-> FilterType(data, "compilation"),
              other |-> FilterOther(data),
              count |-> Len(data),
              other_url |-> UrlFor(a, "chronological")]]

ChronologicalView(a, data) ==
    [kind |-> "template", name |-> "artist_albums_chronological.html",
     ctx |-> [albums |-> data,
              count |-> Len(data),
              other_url |-> UrlFor(a, "categories")]]

Render(a, dt, data) ==
    IF dt = "categories" \/ dt = ""
    THEN CategoriesView(a, data)
    ELSE ChronologicalView(a, data)

\* Mutation of OnNoContent: the 204 is ignored and the loop goes on.
OnNoContentRetry(st) == st

\* What the handler does with a 204 page: return, nothing else.
OnNoContent(st) == [st EXCEPT !.pc = "returned", !.response = Whoops204]

\* What the handler does with a page that has no items: return a text.
OnItemsMissing(st) == [st EXCEPT !.pc = "returned", !.response = UhOhNoItems]

\* Lines 229-257, after the loop.
AfterLoop(st, a, dt) ==
    IF NormalizeRaises(st.items)
    THEN [st EXCEPT !.pc = "returned", !.response = IndexError]
    ELSE LET data == SortByReleaseDate(MapNormalize(st.items))
         IN  [st EXCEPT !.pc = "returned", !.album_data = data,
                        !.response = Render(a, dt, data)]

\* One iteration of the while loop (lines 207-226) on response r, and, when
\* the loop ends normally, the rest of the handler.
LoopBody(st, a, dt, r) ==
    IF r.status = 204 THEN OnNoContent(st)
    ELSE IF ItemsMissing(r.body) THEN OnItemsMissing(st)
    ELSE LET st1 == [st EXCEPT !.items = Extend(st.items, r.body.items)]
         IN  IF r.body.next = JsonNull
             THEN AfterLoop([st1 EXCEPT !.done = TRUE], a, dt)
             ELSE [st1 EXCEPT !.offset = NextOffset(st.offset)]

Locals == [pc |-> pc, items |-> items, offset |-> offset, done |-> done,
           album_data |-> album_data, response |-> response]

NoReply == [kind |-> "none"]

\* A request arrives: lines 198-205.
ArtistAlbums(a, dt) ==
    /\ pc \in {"idle", "returned"}
    /\ pc' = "loop"
    /\ artist_id' = a
    /\ display_type' = dt
    /\ items' = <<>>
    /\ done' = FALSE
    /\ offset' = 0
    /\ album_data' = <<>>
    /\ response' = NoReply
    /\ calls' = <<>>
    /\ pages' = <<>>
    /\ UNCHANGED accountVars

\* The provider answers finitely many pages of a finite listing.
ProviderMayAnswer(r) ==
    /\ r.status = 200 =>
        /\ Len(items) + Len(r.body.items) <= MaxItems
        /\ Len(pages) + 1 = MaxPages => r.body.next = JsonNull
    /\ Len(pages) < MaxPages

FetchPage(r) ==
    /\ pc = "loop"
    /\ ~done
    /\ ProviderMayAnswer(r)
    /\ calls' = Append(calls, AlbumsUrl(artist_id, offset))
    /\ pages' = Append(pages, r)
    /\ LET st == LoopBody(Locals, artist_id, display_type, r)
       IN  /\ pc' = st.pc
           /\ items' = st.items
           /\ offset' = st.offset
           /\ done' = st.done
           /\ album_data' = st.album_data
           /\ response' = st.response
    /\ UNCHANGED <<artist_id, display_type>>
    /\ UNCHANGED accountVars

InitAlbumVars ==
    /\ pc = "idle"
    /\ artist_id = "artist1"
    /\ display_type = "categories"
    /\ items = <<>>
    /\ offset = 0
    /\ done = FALSE
    /\ album_data = <<>>
    /\ response = NoReply
    /\ calls = <<>>
    /\ pages = <<>>

InitAccountVars ==
    /\ users = <<>>
    /\ session = [c \in 1..NumClients |-> "anonymous"]
    /\ cb = [c \in 1..NumClients |-> [pc |-> "idle"]]
    /\ reply = NoReply

Init == InitAlbumVars /\ InitAccountVars

-----------------------------------------------------------------------------
(* Accounts: the users table, flask_login sessions, login_callback *)

Clients == 1..NumClients
Subjects == {"alice", "bob"}
Tokens == {"tok1", "tok2"}
Anonymous == "anonymous"

\* Rows of User.query.filter_by(spotify_id=sid)
Matching(rows, sid) == {i \in 1..Len(rows) : rows[i].spotify_id = sid}

\* .first() of a query with no ORDER BY: None (0) when nothing matches,
\* otherwise whichever matching row the database yields first.
FirstCandidates(rows, sid) ==
    IF Matching(rows, sid) = {} THEN {0} ELSE Matching(rows, sid)

\* User(spotify_id=..., spotify_token=...) added and committed: a new row,
\* the serial primary key is the next integer.
InsertUser(rows, sid, tok) ==
    Append(rows, [id |-> Len(rows) + 1, spotify_id |-> sid, spotify_token |-> tok])

\* user.spotify_token = token, committed: UPDATE of the row with that id.
UpdateToken(rows, id, tok) == [rows EXCEPT ![id].spotify_token = tok]

\* Lines 372-380 for the query result found (0 = None).
Upsert(rows, found, sid, tok) ==
    IF found # 0 THEN UpdateToken(rows, found, tok) ELSE InsertUser(rows, sid, tok)

AuthorizeUrl == "https://accounts.spotify.com/authorize"
Redirect(to) == [kind |-> "redirect", to |-> to]
\* go_to_spotify()
GoToSpotify == Redirect(AuthorizeUrl)
NoCall == [status |-> 0]

NoBearer == "-"

\* What a request handler did: the call it made to the provider (bearer token
\* and the provider's response) and what it returned to the browser.
Reply(route, c, bearer, upstream, result) ==
    [route |-> route, client |-> c, bearer |-> bearer, upstream |-> upstream,
     result |-> result]

\* current_user.is_authenticated: the session names a user and load_user finds it.
IsAuthenticated(c) == session[c] # Anonymous /\ Matching(users, session[c]) # {}

\* Lines 345-371: token exchange, GET /v1/me, then the query.
CallbackQuery(c, sid, tok) ==
    /\ cb[c].pc = "idle"
    /\ \E found \in FirstCandidates(users, sid) :
         cb' = [cb EXCEPT ![c] = [pc |-> "queried", spotify_id |-> sid,
                                  token |-> tok, user |-> found]]
    /\ UNCHANGED <<users, session, reply>>
    /\ UNCHANGED albumVars

\* Lines 372-392: update or create, commit, login_user, redirect.
CallbackCommit(c) ==
    /\ cb[c].pc = "queried"
    /\ users' = Upsert(users, cb[c].user, cb[c].spotify_id, cb[c].token)
    /\ session' = [session EXCEPT ![c] = cb[c].spotify_id]
    /\ cb' = [cb EXCEPT ![c] = [pc |-> "idle"]]
    /\ reply' = Reply("/callback/", c, NoBearer, NoCall, Redirect("/"))
    /\ UNCHANGED albumVars

\* Lines 132-145; login_required turns an anonymous browser away.
Logout(c) ==
    /\ cb[c].pc = "idle"
    /\ IF ~IsAuthenticated(c)
       THEN /\ reply' = Reply("/logout/", c, NoBearer, NoCall, [kind |-> "unauthorized"])
            /\ UNCHANGED session
       ELSE /\ session' = [session EXCEPT ![c] = Anonymous]
            /\ reply' = Reply("/logout/", c, NoBearer, NoCall, Redirect("/"))
    /\ UNCHANGED <<users, cb>>
    /\ UNCHANGED albumVars

-----------------------------------------------------------------------------
(* get_data and its callers *)

Track == [name |-> "Song", uri |-> "spotify:track:1", duration_ms |-> 1000,
          album |-> [name |-> "Record", images |-> <<[url |-> "cover"]>>],
          artists |-> <<[name |-> "Band", id |-> "band1"]>>]
JsonNullItem == [json |-> "null"]

\* Responses of GET /v1/me/player/currently-playing
PlayerResponses ==
    {[status |-> 200, body |-> [item |-> Track, progress_ms |-> 10, is_playing |-> TRUE]],
     [status |-> 200, body |-> [item |-> JsonNullItem, progress_ms |-> 0, is_playing |-> FALSE]],
     [status |-> 401, body |-> [error |-> "The access token expired"]],
     [status |-> 204]}

PyNone == [py |-> "None"]
NothingPlaying == [error |-> "nothing_playing", nothing_playing |-> TRUE]

\* parsed.get("item", None) == None
ItemIsNone(parsed) == ~HasKey(parsed, "item") \/ parsed.item = JsonNullItem

TrackData(parsed) ==
    [img_src |-> parsed.item.album.images[1].url,
     artists |-> [i \in 1..Len(parsed.item.artists) |->
                    [name |-> parsed.item.artists[i].name, id |-> parsed.item.artists[i].id]],
     album_name |-> parsed.item.album.name,
     track_name |-> parsed.item.name,
     track_ms_total |-> parsed.item.duration_ms,
     track_ms_progress |-> parsed.progress_ms,
     track_is_playing |-> parsed.is_playing,
     track_uri |-> parsed.item.uri]

\* Mutation of get_data: the 204 is not handled (the TODO of line 291).
get_dataUnhandled204(r) ==
    IF ~HasKey(r, "body") \/ ItemIsNone(r.body) THEN PyNone
    ELSE TrackData(r.body)

\* Lines 287-319, on the provider's response r.
get_data(r) ==
    IF r.status = 204 THEN NothingPlaying
    ELSE IF ItemIsNone(r.body) THEN PyNone
    ELSE TrackData(r.body)

Template(name, ctx) == [kind |-> "template", name |-> name, ctx |-> ctx]
Json(body) == [kind |-> "json", body |-> body]
Relogin == [error |-> "relogin"]
AttributeError == [kind |-> "exception", name |-> "AttributeError"]

\* Lines 156-160
StartResult(d) == IF d = PyNone THEN GoToSpotify ELSE Template("main.html", d)

\* Lines 281-285
CurrentResult(d) == IF d = PyNone THEN Json(Relogin) ELSE Json(d)

\* Lines 147-160. current_user is load_user(session id).
start(c, r) ==
    /\ cb[c].pc = "idle"
    /\ IF ~IsAuthenticated(c)
       THEN reply' = Reply("/", c, NoBearer, NoCall,
                           Template("start.html", [spotify_link |-> AuthorizeUrl]))
       ELSE \E u \in FirstCandidates(users, session[c]) :
              reply' = Reply("/", c, users[u].spotify_token, r, StartResult(get_data(r)))
    /\ UNCHANGED <<users, session, cb>>
    /\ UNCHANGED albumVars

\* Lines 279-285. The route is not login_required: the anonymous user has
\* no spotify_token attribute.
current(c, r) ==
    /\ cb[c].pc = "idle"
    /\ IF ~IsAuthenticated(c)
       THEN reply' = Reply("/current/", c, NoBearer, NoCall, AttributeError)
       ELSE \E u \in FirstCandidates(users, session[c]) :
              reply' = Reply("/current/", c, users[u].spotify_token, r,
                             CurrentResult(get_data(r)))
    /\ UNCHANGED <<users, session, cb>>
    /\ UNCHANGED albumVars

\* Requests of the login flow, from any browser, overlapping freely: each
\* request runs in its own worker against the shared users table.
NextAccounts ==
    \/ \E c \in Clients, sid \in Subjects, tok \in Tokens : CallbackQuery(c, sid, tok)
    \/ \E c \in Clients : CallbackCommit(c)
    \/ \E c \in Clients : Logout(c)

SpecAccounts == Init /\ [][NextAccounts]_vars

\* The users table once every subject has logged in, one login after the
\* other, with whatever tokens the provider issued; each browser is logged
\* out or logged in as one of them.
LoggedInTables ==
    {<<[id |-> 1, spotify_id |-> s1, spotify_token |-> t1],
       [id |-> 2, spotify_id |-> s2, spotify_token |-> t2]>> :
        s1 \in Subjects, s2 \in Subjects, t1 \in Tokens, t2 \in Tokens}

InitPlayer ==
    /\ InitAlbumVars
    /\ users \in {t \in LoggedInTables : t[1].spotify_id # t[2].spotify_id}
    /\ session \in [Clients -> {Anonymous} \cup Subjects]
    /\ cb = [c \in Clients |-> [pc |-> "idle"]]
    /\ reply = NoReply

NextPlayer ==
    \/ \E c \in Clients, r \in PlayerResponses : start(c, r)
    \/ \E c \in Clients, r \in PlayerResponses : current(c, r)
    \/ \E c \in Clients : Logout(c)

SpecPlayer == InitPlayer /\ [][NextPlayer]_vars

NextAlbums ==
    \/ \E a \in Artists, dt \in DisplayTypes : ArtistAlbums(a, dt)
    \/ \E r \in AlbumResponses : FetchPage(r)

SpecAlbums == Init /\ [][NextAlbums]_vars

\* Each requests.get returns, so a handler in its loop takes its next step.
LiveAlbums == SpecAlbums /\ WF_vars(\E r \in AlbumResponses : FetchPage(r))

-----------------------------------------------------------------------------
(* Properties of artist_albums *)

Last(s) == s[Len(s)]
Count(s, v) == Cardinality({i \in 1..Len(s) : s[i] = v})

\* A page the handler can aggregate: not a 204, and the items field present.
WellFormed(r) == r.status # 204 /\ HasKey(r.body, "items")
AllWellFormed(ps) == \A k \in 1..Len(ps) : WellFormed(ps[k])

RECURSIVE ConcatPages(_)
ConcatPages(ps) ==
    IF ps = <<>> THEN <<>> ELSE Head(ps).body.items \o ConcatPages(Tail(ps))

RECURSIVE IsSubseq(_, _)
IsSubseq(s, t) ==
    IF s = <<>> THEN TRUE
    ELSE IF t = <<>> THEN FALSE
    ELSE IF Head(s) = Head(t) THEN IsSubseq(Tail(s), Tail(t))
    ELSE IsSubseq(s, Tail(t))

Rendered == pc = "returned" /\ response.kind = "template"

C1_Aggregated ==
    AllWellFormed(pages) =>
        /\ items = ConcatPages(pages)
        /\ done <=> (pages # <<>> /\ Last(pages).body.next = JsonNull)
        /\ done => pc = "returned"
        /\ \A k \in 1..(Len(pages) - 1) : pages[k].body.next # JsonNull

\* C1: when every page received is well formed and only the last one has
\* next = null, the loop ends (a request in its loop always returns) and items
\* is exactly the concatenation of the pages' items in the order the pages
\* were requested.
C1_ConcatAndTerminates ==
    /\ []C1_Aggregated
    /\ (pc = "loop") ~> (pc = "returned")

C1_Witness ==
    /\ pc = "returned" /\ done
    /\ Len(pages) = 2 /\ AllWellFormed(pages)
    /\ Len(pages[1].body.items) = 2 /\ Len(pages[2].body.items) = 1
    /\ pages[1].body.items[1] # pages[1].body.items[2]
    /\ pages[2].body.items[1] # pages[1].body.items[1]
    /\ items = pages[1].body.items \o pages[2].body.items

\* C2: the k-th album-listing call of a request asks for limit 50 at offset
\* 50*(k-1) of the requested artist, no offset is asked twice, a call follows
\* only a page that had items and a non-null next, there are as many calls as
\* pages received, and the items are as many as the pages held.
C2_CallsInOrder ==
    /\ Len(calls) = Len(pages)
    /\ \A k \in 1..Len(calls) :
         calls[k] = [artist |-> artist_id, limit |-> 50, offset |-> 50 * (k - 1)]
    /\ \A j, k \in 1..Len(calls) : j # k => calls[j].offset # calls[k].offset
    /\ \A k \in 1..(Len(calls) - 1) :
         WellFormed(pages[k]) /\ pages[k].body.next # JsonNull
    /\ pc = "loop" => offset = 50 * Len(calls)
    /\ Rendered =>
         Len(album_data) = Cardinality({<<k, i>> \in (1..Len(pages)) \X (1..MaxPageLen) :
                                          i <= Len(pages[k].body.items)})

C2_Witness ==
    /\ Rendered
    /\ Len(calls) = 2 /\ calls[1].offset = 0 /\ calls[2].offset = 50
    /\ Len(pages[1].body.items) = 2 /\ Len(pages[2].body.items) = 1
    /\ Len(album_data) = 3

\* C3: a page with status 204 is the last page of its request: the handler
\* has returned the text "whoops 204", which carries none of the items
\* gathered so far, and made no call after the one answered by the 204.
C3_NoContentEnds ==
    \A k \in 1..Len(pages) :
        pages[k].status = 204 =>
            /\ k = Len(pages)
            /\ Len(calls) = k
            /\ pc = "returned"
            /\ response = [kind |-> "text", body |-> "whoops 204"]
            /\ album_data = <<>>
            /\ items = ConcatPages(SubSeq(pages, 1, k - 1))

C3_Witness ==
    /\ Len(pages) = 2 /\ pages[2].status = 204
    /\ Len(items) = 2
    /\ response = Whoops204

\* C4: a page that is no 204 and has no items field ends the request with a
\* redirect to the provider's authorization endpoint, which is not the
\* outcome of a 204, and no further page is requested.
C4_AuthExpiredRedirects ==
    \A k \in 1..Len(pages) :
        (pages[k].status # 204 /\ ~HasKey(pages[k].body, "items")) =>
            /\ k = Len(pages)
            /\ Len(calls) = k
            /\ pc = "returned"
            /\ response # Whoops204
            /\ response = [kind |-> "redirect", to |-> "https://accounts.spotify.com/authorize"]

SameDate(s, d) == SelectSeq(s, LAMBDA x : x.release_date = d)

\* C8: album_data is a permutation of the normalized items, non-decreasing in
\* release_date; albums of one release_date are in fetch order; sorting
\* album_data again changes nothing.
C8_SortedStable ==
    Rendered =>
        LET fetched == MapNormalize(items) IN
        /\ Len(album_data) = Len(fetched)
        /\ \A i \in 1..Len(fetched) :
             Count(album_data, fetched[i]) = Count(fetched, fetched[i])
        /\ \A i, j \in 1..Len(album_data) :
             i < j => ~StrLess(album_data[j].release_date, album_data[i].release_date)
        /\ \A i \in 1..Len(fetched) :
             SameDate(album_data, fetched[i].release_date)
                = SameDate(fetched, fetched[i].release_date)
        /\ SortByReleaseDate(album_data) = album_data

C8_Witness ==
    /\ Rendered
    /\ Len(album_data) = 3
    /\ album_data # MapNormalize(items)
    /\ album_data[1].release_date = album_data[2].release_date
    /\ album_data[1] # album_data[2]
    /\ album_data[3].release_date # album_data[2].release_date

\* "unknown"
Unknown == <<117, 110, 107, 110, 111, 119, 110>>

NormalizedWith(sentinel) ==
    Rendered =>
        /\ Len(album_data) = Len(items)
        /\ \A i \in 1..Len(items) :
             \E j \in 1..Len(album_data) :
                /\ album_data[j].image_url = items[i].images[1].url
                /\ album_data[j].type = items[i].album_type
                /\ album_data[j].release_date =
                     IF HasKey(items[i], "release_date")
                     THEN items[i].release_date ELSE sentinel

-----------------------------------------------------------------------------
(* Properties of the accounts *)

\* C5: no two rows of the users table have the same spotify_id.
C5_UniqueSubject ==
    \A s \in Subjects : Cardinality(Matching(users, s)) <= 1

\* C6: a login callback that completes for subject s with token t leaves
\* exactly one row for s, holding t; it adds a row only if s had none, leaves
\* the rows of other subjects as they were and removes none.
C6_LatestToken ==
    [][\A c \in Clients :
         (cb[c].pc = "queried" /\ cb'[c].pc = "idle") =>
            LET sid == cb[c].spotify_id IN
            /\ Cardinality(Matching(users', sid)) = 1
            /\ \A i \in Matching(users', sid) : users'[i].spotify_token = cb[c].token
            /\ Matching(users, sid) # {} => Len(users') = Len(users)
            /\ Len(users') >= Len(users)
            /\ \A i \in 1..Len(users) :
                 users[i].spotify_id # sid => users'[i] = users[i]]_vars

-----------------------------------------------------------------------------
(* Properties of the currently-playing lookup *)

AskedPlayer == HasKey(reply, "route") /\ reply.upstream # NoCall

TokenInvalidOutcome(res) ==
    \/ res = [kind |-> "redirect", to |-> "https://accounts.spotify.com/authorize"]
    \/ res = [kind |-> "json", body |-> [error |-> "relogin"]]

CarriesNothingPlaying(res) ==
    \/ res.kind = "json" /\ HasKey(res.body, "error") /\ res.body.error = "nothing_playing"
    \/ res.kind = "template" /\ res.name = "main.html"
         /\ HasKey(res.ctx, "error") /\ res.ctx.error = "nothing_playing"

====
